---- MODULE Spec2Model ----
(***************************************************************************)
(* Model of the text-analysis framework: the text-to-metrics pipeline of   *)
(* src/src/preprocessors.py (clean_text, default_parser) and the container *)
(* of src/src/framework.py (TextAnalysisFramework: stop words, corpus).    *)
(*                                                                         *)
(* A Python str is a sequence of one-character strings.  A float is an     *)
(* exact rational [num, den] (den > 0), compared by cross-multiplication;  *)
(* the readability score, which the code only compares and clamps, is an   *)
(* integer.                                                                *)
(***************************************************************************)
EXTENDS Integers, Sequences, FiniteSets, TLC

VARIABLES stop_words, data, raw_texts, outfile, outcome, returned, call

vars == <<stop_words, data, raw_texts, outfile, outcome, returned, call>>

(***************************************************************************)
(* Characters and the str methods the code uses.                           *)
(***************************************************************************)
Digit == {"0", "1", "2", "3", "4", "5", "6", "7", "8", "9"}

LowerLetters ==
  <<"a", "b", "c", "d", "e", "f", "g", "h", "i", "j", "k", "l", "m",
    "n", "o", "p", "q", "r", "s", "t", "u", "v", "w", "x", "y", "z">>

UpperLetters ==
  <<"A", "B", "C", "D", "E", "F", "G", "H", "I", "J", "K", "L", "M",
    "N", "O", "P", "Q", "R", "S", "T", "U", "V", "W", "X", "Y", "Z">>

Range(s) == {s[i] : i \in DOMAIN s}

LowerSet == Range(LowerLetters)

UpperSet == Range(UpperLetters)

\* str.isspace characters (the ASCII ones TLA+ can write)
Whitespace == {" ", "\t", "\n", "\r"}

\* string.punctuation (without the double quote, the backslash and the
\* backquote, which no text of the model holds)
Punctuation ==
  {"!", "#", "$", "%", "&", "'", "(", ")", "*", "+", ",", "-", ".",
   "/", ":", ";", "<", "=", ">", "?", "@", "[", "]", "^", "_",
   "{", "|", "}", "~"}

\* the regex class \w
WordChar == LowerSet \cup UpperSet \cup Digit \cup {"_"}

SetMin(S) == CHOOSE x \in S : \A y \in S : x <= y

SetMax(S) == CHOOSE x \in S : \A y \in S : x >= y

lower_char(c) ==
  IF c \in UpperSet
    THEN LowerLetters[CHOOSE i \in 1..26 : UpperLetters[i] = c]
    ELSE c

\* str.lower()
lower(s) == [i \in 1..Len(s) |-> lower_char(s[i])]

\* str.strip()
strip(s) ==
  LET idx == {i \in 1..Len(s) : s[i] \notin Whitespace}
  IN  IF idx = {} THEN <<>> ELSE SubSeq(s, SetMin(idx), SetMax(idx))

\* the index after the longest run of characters of S that starts at i
RunEnd(s, i, S) ==
  LET stop == {j \in i..Len(s) : s[j] \notin S}
  IN  IF stop = {} THEN Len(s) + 1 ELSE SetMin(stop)

\* the index after the longest run of characters outside S that starts at i
RunEndNot(s, i, S) ==
  LET stop == {j \in i..Len(s) : s[j] \in S}
  IN  IF stop = {} THEN Len(s) + 1 ELSE SetMin(stop)

\* s[i] when i is an index of s, and a character no pattern names otherwise
At(s, i) == IF i \in 1..Len(s) THEN s[i] ELSE "<eof>"

\* re.split on runs of characters of S, from index i on: the field up to the
\* next run of S, then the fields after that run
RECURSIVE SplitRuns(_, _, _)
SplitRuns(s, i, S) ==
  LET k == RunEndNot(s, i, S)
      field == SubSeq(s, i, k - 1)
  IN  IF k > Len(s) THEN <<field>>
      ELSE <<field>> \o SplitRuns(s, RunEnd(s, k, S), S)

NonEmpty(f) == f # <<>>

\* str.split() with no argument: the maximal runs of non-whitespace
split(s) == SelectSeq(SplitRuns(s, 1, Whitespace), NonEmpty)

\* str.isdigit()
isdigit(w) == Len(w) > 0 /\ \A i \in 1..Len(w) : w[i] \in Digit

(***************************************************************************)
(* clean_text: four re.sub passes and a strip.  MatchEnd(pat, s, i) is the *)
(* index after the match of pattern pat that starts at index i of s, and i *)
(* itself when the pattern does not match there.  Every quantified part of *)
(* the four patterns is followed by a character outside its class, so the  *)
(* greedy match is the only match at a given start.                        *)
(***************************************************************************)

\* \d+/\d+/\d{2,4},\s+\d+:\d+\s+(AM|PM)      (no re.IGNORECASE flag)
TimestampEnd(s, i) ==
  LET a == RunEnd(s, i, Digit)
      b == RunEnd(s, a + 1, Digit)
      c == RunEnd(s, b + 1, Digit)
      d == RunEnd(s, c + 1, Whitespace)
      e == RunEnd(s, d, Digit)
      f == RunEnd(s, e + 1, Digit)
      g == RunEnd(s, f, Whitespace)
  IN  IF /\ a > i /\ At(s, a) = "/"
         /\ b > a + 1 /\ At(s, b) = "/"
         /\ c - (b + 1) \in 2..4 /\ At(s, c) = ","
         /\ d > c + 1
         /\ e > d /\ At(s, e) = ":"
         /\ f > e + 1
         /\ g > f
         /\ At(s, g) \in {"A", "P"} /\ At(s, g + 1) = "M"
        THEN g + 2
        ELSE i

\* http[s]?://\S+
UrlEnd(s, i) ==
  LET k == IF At(s, i + 4) = "s" THEN i + 5 ELSE i + 4
      e == RunEndNot(s, k + 3, Whitespace)
  IN  IF /\ At(s, i) = "h" /\ At(s, i + 1) = "t"
         /\ At(s, i + 2) = "t" /\ At(s, i + 3) = "p"
         /\ At(s, k) = ":" /\ At(s, k + 1) = "/" /\ At(s, k + 2) = "/"
         /\ e > k + 3
        THEN e
        ELSE i

\* the regex assertion \b at index i (between s[i-1] and s[i])
WordBoundary(s, i) == (At(s, i - 1) \in WordChar) # (At(s, i) \in WordChar)

\* \b\d+/\d+\b
PageMarkerEnd(s, i) ==
  LET a == RunEnd(s, i, Digit)
      b == RunEnd(s, a + 1, Digit)
  IN  IF /\ WordBoundary(s, i)
         /\ a > i /\ At(s, a) = "/"
         /\ b > a + 1
         /\ WordBoundary(s, b)
        THEN b
        ELSE i

\* \s+
SpacesEnd(s, i) == RunEnd(s, i, Whitespace)

MatchEnd(pat, s, i) ==
  CASE pat = "timestamp" -> TimestampEnd(s, i)
    [] pat = "url" -> UrlEnd(s, i)
    [] pat = "page" -> PageMarkerEnd(s, i)
    [] pat = "spaces" -> SpacesEnd(s, i)

\* re.sub(pat, repl, s) from index i on: the text up to the leftmost match,
\* the replacement, then the same from the end of that match
RECURSIVE re_sub(_, _, _, _)
re_sub(pat, repl, s, i) ==
  LET starts == {j \in i..Len(s) : MatchEnd(pat, s, j) > j}
  IN  IF starts = {} THEN SubSeq(s, i, Len(s))
      ELSE LET j == SetMin(starts)
           IN  SubSeq(s, i, j - 1) \o repl \o re_sub(pat, repl, s, MatchEnd(pat, s, j))

RemoveTimestamps(text) == re_sub("timestamp", <<>>, text, 1)

RemoveUrls(text) == re_sub("url", <<>>, text, 1)

RemovePageMarkers(text) == re_sub("page", <<>>, text, 1)

NormalizeWhitespace(text) == re_sub("spaces", <<" ">>, text, 1)

clean_text(text) ==
  strip(NormalizeWhitespace(RemovePageMarkers(RemoveUrls(RemoveTimestamps(text)))))

(***************************************************************************)
(* Floats as exact rationals.                                              *)
(***************************************************************************)
Rat(n, d) == [num |-> n, den |-> d]

RatAdd(a, b) == Rat(a.num * b.den + b.num * a.den, a.den * b.den)

RatSub(a, b) == Rat(a.num * b.den - b.num * a.den, a.den * b.den)

RatMul(a, b) == Rat(a.num * b.num, a.den * b.den)

RatLess(a, b) == a.num * b.den < b.num * a.den

RatEq(a, b) == a.num * b.den = b.num * a.den

\* the literal 0 of the "... if xs else 0" fallbacks
Zero == Rat(0, 1)

RECURSIVE SumSeq(_)
SumSeq(xs) == IF xs = <<>> THEN 0 ELSE Head(xs) + SumSeq(Tail(xs))

\* the dict with no key
EmptyDict == [k \in {} |-> 0]

(***************************************************************************)
(* default_parser, step by step.  The two libraries it calls are outside   *)
(* the repository: textstat.flesch_reading_ease returns some number or     *)
(* raises (fre), and VADER returns one compound score per valid sentence,  *)
(* in tenths, or raises (sia).                                             *)
(***************************************************************************)
SentenceEnd == {".", "!", "?"}

NonBlank(f) == strip(f) # <<>>

\* sentences = re.split(r'[.!?]+', text_lower);
\* valid_sentences = [s.strip() for s in sentences if s.strip()]
valid_sentences(text_lower) ==
  LET sentences == SplitRuns(text_lower, 1, SentenceEnd)
      kept == SelectSeq(sentences, NonBlank)
  IN  [i \in 1..Len(kept) |-> strip(kept[i])]

NotPunctuation(c) == c \notin Punctuation

\* re.match(r"^[a-z]*\d+[a-z]*$", w)
IsCourseCode(w) ==
  LET a == RunEnd(w, 1, LowerSet)
      b == RunEnd(w, a, Digit)
      c == RunEnd(w, b, LowerSet)
  IN  b > a /\ c = Len(w) + 1

\* faulty variant: only standalone numbers are dropped, course codes are kept
KeepToken_numbers_only(w) == ~isdigit(w)

KeepToken(w) == ~isdigit(w) /\ ~IsCourseCode(w)

\* punctuation removed, split on whitespace, numbers and course codes dropped
tokenize(text_lower) ==
  SelectSeq(split(SelectSeq(text_lower, NotPunctuation)), KeepToken)

\* [w for w in tokens if w not in stop_words]
remove_stopwords(tokens, stop) ==
  LET Keep(w) == w \notin stop IN SelectSeq(tokens, Keep)

\* Counter(filtered_tokens)
Counter(tokens) ==
  [w \in Range(tokens) |-> Cardinality({i \in DOMAIN tokens : tokens[i] = w})]

word_len_avg(filtered) ==
  IF filtered # <<>>
    THEN Rat(SumSeq([i \in DOMAIN filtered |-> Len(filtered[i])]), Len(filtered))
    ELSE Zero

avg_sentence_len(valid) ==
  IF valid # <<>>
    THEN Rat(SumSeq([i \in DOMAIN valid |-> Len(split(valid[i]))]), Len(valid))
    ELSE Zero

\* faulty variant: the fallback of an empty token list is 1
type_token_fallback_one(filtered) ==
  IF filtered # <<>>
    THEN Rat(Cardinality(Range(filtered)), Len(filtered))
    ELSE Rat(1, 1)

type_token(filtered) ==
  IF filtered # <<>>
    THEN Rat(Cardinality(Range(filtered)), Len(filtered))
    ELSE Zero

MinValidSentences == 3

FallbackReadability == 50

\* faulty variant: the lower bound is forgotten
clamp_upper_only(r) == IF r > 100 THEN 100 ELSE r

\* max(min(readability, 100), 0)
clamp(r) == IF r > 100 THEN 100 ELSE IF r < 0 THEN 0 ELSE r

\* faulty variant: the override also fires with exactly MinValidSentences sentences
readability_score_inclusive(fre, valid) ==
  LET computed == IF fre.ok THEN clamp(fre.value) ELSE FallbackReadability
  IN  IF Len(valid) <= MinValidSentences THEN FallbackReadability ELSE computed

\* step 5: the try/except around textstat, then the too-few-sentences override
readability_score(fre, valid) ==
  LET computed == IF fre.ok THEN clamp(fre.value) ELSE FallbackReadability
  IN  IF Len(valid) < MinValidSentences THEN FallbackReadability ELSE computed

\* faulty variant: only the positive extreme is smoothed
smooth_positive_only(m) ==
  IF RatLess(Rat(9, 10), m)
    THEN RatAdd(Rat(9, 10), RatMul(RatSub(m, Rat(9, 10)), Rat(1, 10)))
    ELSE m

\* the smoothing of extreme means
smooth(m) ==
  IF RatLess(Rat(9, 10), m)
    THEN RatAdd(Rat(9, 10), RatMul(RatSub(m, Rat(9, 10)), Rat(1, 10)))
  ELSE IF RatLess(m, Rat(-9, 10))
    THEN RatAdd(Rat(-9, 10), RatMul(RatAdd(m, Rat(9, 10)), Rat(1, 10)))
  ELSE m

\* step 6: the try/except around VADER
sentiment_score(sia, valid) ==
  IF ~sia.ok THEN Zero
  ELSE IF sia.scores # <<>>
    THEN smooth(Rat(SumSeq(sia.scores), 10 * Len(sia.scores)))
    ELSE smooth(Zero)

\* step 4: the statistics that depend on the text and the stop words alone
lexical_statistics(valid, filtered_tokens) ==
  [word_count |-> Counter(filtered_tokens),
   word_length |-> word_len_avg(filtered_tokens),
   sentence_length |-> avg_sentence_len(valid),
   type_token_ratio |-> type_token(filtered_tokens)]

\* the returned dict
metrics_record(lex, valid, fre, sia) ==
  [word_count |-> lex.word_count,
   word_length |-> lex.word_length,
   sentence_length |-> lex.sentence_length,
   type_token_ratio |-> lex.type_token_ratio,
   readability |-> readability_score(fre, valid),
   sentiment |-> sentiment_score(sia, valid)]

(***************************************************************************)
(* TextAnalysisFramework.__init__ and the state of a default_parser call.  *)
(***************************************************************************)
NoFile == [exists |-> FALSE, content |-> <<>>]

\* the last call of a framework method: its name, its action argument (of
\* update_stopwords) and the exception it raised, "none" when it returned
Outcome(op, arg, raised) == [op |-> op, arg |-> arg, raised |-> raised]

Constructed == Outcome("__init__", "", "none")

Idle == [pc |-> "idle"]

Init ==
  /\ stop_words = {}
  /\ data = EmptyDict
  /\ raw_texts = EmptyDict
  /\ outfile = NoFile
  /\ outcome = Constructed
  /\ returned = EmptyDict
  /\ call = Idle

(***************************************************************************)
(* The inputs of default_parser: texts made of at most MaxPieces pieces,   *)
(* the texts the specification names, and stop-word sets.                  *)
(***************************************************************************)
MaxPieces == 3

Pieces ==
  <<<<"E", "t", "h", "i", "c", "s", ".", " ">>,
    <<"i", "s", " ", "h", "a", "r", "d", "!", " ">>,
    <<"e", "n", "g", "l", "1", "2", "3", "4", " ">>,
    <<"4", "2", " ">>,
    <<"?", "!", " ">>>>

RECURSIVE Flatten(_)
Flatten(ss) == IF ss = <<>> THEN <<>> ELSE Head(ss) \o Flatten(Tail(ss))

PieceTexts ==
  {Flatten([i \in DOMAIN f |-> Pieces[f[i]]]) :
     f \in UNION {[1..n -> DOMAIN Pieces] : n \in 0..MaxPieces}}

ScenarioText ==
  <<"E", "t", "h", "i", "c", "s", ".", " ", "E", "t", "h", "i", "c", "s",
    " ", "i", "s", " ", "h", "a", "r", "d", ".", " ", "T", "h", "e", " ",
    "c", "o", "u", "r", "s", "e", " ", "c", "o", "v", "e", "r", "s", " ",
    "e", "t", "h", "i", "c", "s", ",", " ", "c", "u", "l", "t", "u", "r",
    "e", ",", " ", "a", "n", "d", " ", "t", "e", "c", "h", "n", "o", "l",
    "o", "g", "y", ".">>

CleanerExample ==
  <<"V", "i", "s", "i", "t", " ", "h", "t", "t", "p", ":", "/", "/", "x",
    ".", "e", "d", "u", " ", "n", "o", "w", ".", " ", "4", "/", "6", "/",
    "2", "5", ",", " ", "6", ":", "0", "8", " ", "P", "M", " ", "3", "/",
    "3", "3">>

CleanerExampleLower ==
  <<"V", "i", "s", "i", "t", " ", "h", "t", "t", "p", ":", "/", "/", "x",
    ".", "e", "d", "u", " ", "n", "o", "w", ".", " ", "4", "/", "6", "/",
    "2", "5", ",", " ", "6", ":", "0", "8", " ", "p", "m", " ", "3", "/",
    "3", "3">>

Texts == PieceTexts \cup {ScenarioText, CleanerExample, CleanerExampleLower}

ScenarioStop == {<<"i", "s">>, <<"t", "h", "e">>, <<"a", "n", "d">>}

ParserStopSets == {{}, ScenarioStop, {<<"i", "s">>, <<"e", "t", "h", "i", "c", "s">>, <<"4", "2">>}}

FleschExcess == 21

\* what textstat.flesch_reading_ease does: raise, or return a (finite) number
FleschOutcomes ==
  {[ok |-> FALSE, value |-> 0]} \cup
  {[ok |-> TRUE, value |-> v] :
     v \in {0 - FleschExcess, 64, 100 + FleschExcess}}

\* compound scores, in tenths
CompoundTenths == {-10, 9, 10}

\* what VADER does on n valid sentences: raise, or score each one
VaderOutcomes(n) ==
  {[ok |-> FALSE, scores |-> <<>>]} \cup
  {[ok |-> TRUE, scores |-> sc] : sc \in [1..n -> CompoundTenths]}

ParserInit ==
  /\ stop_words = {}
  /\ data = EmptyDict
  /\ raw_texts = EmptyDict
  /\ outfile = NoFile
  /\ outcome = Constructed
  /\ returned = EmptyDict
  /\ call \in {[pc |-> "called", text |-> t, stop_words |-> sw] :
                 t \in Texts, sw \in ParserStopSets}

\* one run of default_parser(text, stop_words), from its call to its return;
\* the locals that do not depend on the libraries are computed once
DefaultParserReturn ==
  /\ call.pc = "called"
  /\ \E cleaned \in {clean_text(call.text)} :
     \E text_lower \in {lower(cleaned)} :
     \E valid \in {valid_sentences(text_lower)} :
     \E tokens \in {tokenize(text_lower)} :
     \E filtered \in {remove_stopwords(tokens, call.stop_words)} :
     \E lex \in {lexical_statistics(valid, filtered)} :
     \E fre \in FleschOutcomes, sia \in VaderOutcomes(Len(valid)) :
       call' = [pc |-> "returned",
                text |-> call.text,
                stop_words |-> call.stop_words,
                cleaned |-> cleaned,
                text_lower |-> text_lower,
                valid_sentences |-> valid,
                tokens |-> tokens,
                filtered_tokens |-> filtered,
                fre |-> fre,
                sia |-> sia,
                ret |-> metrics_record(lex, valid, fre, sia)]
  /\ UNCHANGED <<stop_words, data, raw_texts, outfile, outcome, returned>>

ParserNext == DefaultParserReturn

ParserSpec == ParserInit /\ [][ParserNext]_vars

(***************************************************************************)
(* The stop-word methods of TextAnalysisFramework.                         *)
(***************************************************************************)
\* text-mode reading: "\r\n" and a lone "\r" are read as "\n"
universal_newlines(content) ==
  LET Kept(i) == ~(content[i] = "\r" /\ At(content, i + 1) = "\n")
      idx == SelectSeq([i \in 1..Len(content) |-> i], Kept)
  IN  [k \in 1..Len(idx) |->
         IF content[idx[k]] = "\r" THEN "\n" ELSE content[idx[k]]]

\* the lines of s from index i on, each with its newline
RECURSIVE LinesFrom(_, _)
LinesFrom(s, i) ==
  LET k == RunEndNot(s, i, {"\n"})
  IN  IF i > Len(s) THEN <<>>
      ELSE IF k > Len(s) THEN <<SubSeq(s, i, Len(s))>>
      ELSE <<SubSeq(s, i, k)>> \o LinesFrom(s, k + 1)

\* f.readlines()
readlines(content) == LinesFrom(universal_newlines(content), 1)

\* set(word.strip().lower() for word in f.readlines())
parse_stop_words(content) ==
  {lower(strip(line)) : line \in Range(readlines(content))}

\* word.strip().lower()
normalize_word(word) == lower(strip(word))

\* the characters of the model in code-point order
AsciiOrder ==
  <<"\t", "\n", "\r", " ", "!", "#", "$", "%", "&", "'", "(", ")", "*",
    "+", ",", "-", ".", "/", "0", "1", "2", "3", "4", "5", "6", "7", "8",
    "9", ":", ";", "<", "=", ">", "?", "@", "A", "B", "C", "D", "E", "F",
    "G", "H", "I", "J", "K", "L", "M", "N", "O", "P", "Q", "R", "S", "T",
    "U", "V", "W", "X", "Y", "Z", "[", "]", "^", "_", "a", "b", "c", "d",
    "e", "f", "g", "h", "i", "j", "k", "l", "m", "n", "o", "p", "q", "r",
    "s", "t", "u", "v", "w", "x", "y", "z", "{", "|", "}", "~">>

ord(c) == CHOOSE i \in DOMAIN AsciiOrder : AsciiOrder[i] = c

\* a < b on str
StrLess(a, b) ==
  \E k \in 1..(Len(a) + 1) :
    /\ \A i \in 1..(k - 1) : i <= Len(b) /\ a[i] = b[i]
    /\ k <= Len(b)
    /\ k <= Len(a) => ord(a[k]) < ord(b[k])

\* sorted(S) for a set of str
RECURSIVE sorted(_)
sorted(S) ==
  IF S = {} THEN <<>>
  ELSE LET least == CHOOSE x \in S : \A y \in S \ {x} : StrLess(x, y)
       IN  <<least>> \o sorted(S \ {least})

\* what save_stopwords writes: each word of sorted(stop_words), then "\n"
stopwords_file(words) ==
  LET ws == sorted(words)
  IN  Flatten([i \in DOMAIN ws |-> Append(ws[i], "\n")])

\* load_stop_words(stopfile) on a file that exists
load_stop_words(content) ==
  /\ stop_words' = parse_stop_words(content)
  /\ outcome' = Outcome("load_stop_words", "", "none")
  /\ UNCHANGED <<data, raw_texts, outfile, returned, call>>

\* load_stop_words on the file save_stopwords wrote; open() raises when
\* nothing was written yet
load_saved_stop_words ==
  IF outfile.exists
    THEN load_stop_words(outfile.content)
    ELSE /\ outcome' = Outcome("load_stop_words", "", "FileNotFoundError")
         /\ UNCHANGED <<stop_words, data, raw_texts, outfile, returned, call>>

add_stopword(word) ==
  /\ stop_words' = stop_words \cup {normalize_word(word)}
  /\ outcome' = Outcome("add_stopword", "", "none")
  /\ UNCHANGED <<data, raw_texts, outfile, returned, call>>

remove_stopword(word) ==
  /\ stop_words' = stop_words \ {normalize_word(word)}
  /\ outcome' = Outcome("remove_stopword", "", "none")
  /\ UNCHANGED <<data, raw_texts, outfile, returned, call>>

\* the loop of update_stopwords over word_list[i..], from the set sw: the
\* set it leaves and whether it raised ValueError
RECURSIVE update_loop(_, _, _, _)
update_loop(sw, word_list, i, action) ==
  IF i > Len(word_list) THEN [stop_words |-> sw, raised |-> "none"]
  ELSE IF action = "add"
    THEN update_loop(sw \cup {normalize_word(word_list[i])}, word_list, i + 1, action)
  ELSE IF action = "remove"
    THEN update_loop(sw \ {normalize_word(word_list[i])}, word_list, i + 1, action)
  ELSE [stop_words |-> sw, raised |-> "ValueError"]

update_stopwords(word_list, action) ==
  /\ \E r \in {update_loop(stop_words, word_list, 1, action)} :
       /\ stop_words' = r.stop_words
       /\ outcome' = Outcome("update_stopwords", action, r.raised)
  /\ UNCHANGED <<data, raw_texts, outfile, returned, call>>

save_stopwords ==
  /\ outfile' = [exists |-> TRUE, content |-> stopwords_file(stop_words)]
  /\ outcome' = Outcome("save_stopwords", "", "none")
  /\ UNCHANGED <<stop_words, data, raw_texts, returned, call>>

(***************************************************************************)
(* The arguments of the stop-word methods.                                 *)
(***************************************************************************)
MaxWords == 2

WordArgs ==
  {<<" ", "I", "s", " ">>,
   <<" ", " ">>,
   <<"a", "\n", "b">>}

StopFiles ==
  {<<"T", "h", "e", "\n", "\n", "i", "s", "\n">>,
   <<"A", "\r", "\n", "b", " ">>}

WordLists == UNION {[1..n -> WordArgs] : n \in 0..MaxWords}

Actions == {"add", "remove", "toggle"}

LoadStopWordsFile == \E content \in StopFiles : load_stop_words(content)

LoadSavedStopWords == load_saved_stop_words

AddStopword == \E word \in WordArgs : add_stopword(word)

RemoveStopword == \E word \in WordArgs : remove_stopword(word)

UpdateStopwords ==
  \E word_list \in WordLists, action \in Actions :
    update_stopwords(word_list, action)

SaveStopwords == save_stopwords

StopNext ==
  \/ LoadStopWordsFile
  \/ LoadSavedStopWords
  \/ AddStopword
  \/ RemoveStopword
  \/ UpdateStopwords
  \/ SaveStopwords

StopSpec == Init /\ [][StopNext]_vars

(***************************************************************************)
(* load_text and the corpus.  data maps a metric name to a dict from label *)
(* to value; raw_texts maps a label to the text read.  returned is the     *)
(* history of the parser: for each label, the dict the parser returned in  *)
(* the last load of that label that returned one.                          *)
(***************************************************************************)
\* d[k] = v
SetItem(d, k, v) ==
  [x \in DOMAIN d \cup {k} |-> IF x = k THEN v ELSE d[x]]

\* for key, value in parsed_output.items(): self.data[key][label] = value
store_record(corpus, label, parsed_output) ==
  [key \in DOMAIN corpus \cup DOMAIN parsed_output |->
     IF key \in DOMAIN parsed_output
       THEN SetItem(IF key \in DOMAIN corpus THEN corpus[key] ELSE EmptyDict,
                    label, parsed_output[key])
       ELSE corpus[key]]

\* a parser a caller passes to load_text: any function (text, stop_words) -> dict
length_parser(text, stop) == [length |-> Len(text)]

\* the files load_text is called on, by basename
TextFiles ==
  [f1 |-> <<"I", "s", " ", "4", "2", " ", "h", "a", "r", "d", ".">>,
   f2 |-> <<>>]

FileNames == {"f1", "f2", "missing"}

LabelArgs == {"None", "f1"}

\* label = os.path.basename(filename) when no label is given
label_of(filename, label) == IF label = "None" THEN filename ELSE label

\* open(filename) fails: nothing is stored
load_text_missing(filename, label) ==
  /\ filename \notin DOMAIN TextFiles
  /\ outcome' = Outcome("load_text", "", "FileNotFoundError")
  /\ UNCHANGED <<stop_words, data, raw_texts, outfile, returned, call>>

\* the parser raises: the raw text is already stored, the corpus is not touched
load_text_parser_raises(filename, label) ==
  /\ filename \in DOMAIN TextFiles
  /\ raw_texts' = SetItem(raw_texts, label_of(filename, label), TextFiles[filename])
  /\ outcome' = Outcome("load_text", "", "ParserError")
  /\ UNCHANGED <<stop_words, data, outfile, returned, call>>

\* the parser returns parsed_output
load_text_store(filename, label, parsed_output) ==
  /\ filename \in DOMAIN TextFiles
  /\ raw_texts' = SetItem(raw_texts, label_of(filename, label), TextFiles[filename])
  /\ data' = store_record(data, label_of(filename, label), parsed_output)
  /\ returned' = SetItem(returned, label_of(filename, label), parsed_output)
  /\ outcome' = Outcome("load_text", "", "none")
  /\ UNCHANGED <<stop_words, outfile, call>>

\* load_text(filename, label) with parser=None
load_text_default(filename, label) ==
  /\ filename \in DOMAIN TextFiles
  /\ \E text_lower \in {lower(clean_text(TextFiles[filename]))} :
     \E valid \in {valid_sentences(text_lower)} :
     \E filtered \in {remove_stopwords(tokenize(text_lower), stop_words)} :
     \E lex \in {lexical_statistics(valid, filtered)} :
     \E fre \in FleschOutcomes, sia \in VaderOutcomes(Len(valid)) :
       load_text_store(filename, label, metrics_record(lex, valid, fre, sia))

\* load_text(filename, label, parser=length_parser)
load_text_custom(filename, label) ==
  /\ filename \in DOMAIN TextFiles
  /\ load_text_store(filename, label,
                     length_parser(TextFiles[filename], stop_words))

CorpusWordArgs == {<<"i", "s">>}

LoadTextMissing ==
  \E filename \in FileNames, label \in LabelArgs :
    load_text_missing(filename, label)

LoadTextParserRaises ==
  \E filename \in FileNames, label \in LabelArgs :
    load_text_parser_raises(filename, label)

LoadTextDefault ==
  \E filename \in FileNames, label \in LabelArgs :
    load_text_default(filename, label)

LoadTextCustom ==
  \E filename \in FileNames, label \in LabelArgs :
    load_text_custom(filename, label)

CorpusAddStopword == \E word \in CorpusWordArgs : add_stopword(word)

CorpusRemoveStopword == \E word \in CorpusWordArgs : remove_stopword(word)

Next ==
  \/ CorpusAddStopword
  \/ CorpusRemoveStopword
  \/ LoadTextMissing
  \/ LoadTextParserRaises
  \/ LoadTextDefault
  \/ LoadTextCustom

Spec == Init /\ [][Next]_vars

(***************************************************************************)
(* Properties of default_parser, checked under ParserSpec.                 *)
(***************************************************************************)
Returned == call.pc = "returned"

InScenario ==
  Returned /\ call.text = ScenarioText /\ call.stop_words = ScenarioStop

CountOf(wc, w) == IF w \in DOMAIN wc THEN wc[w] ELSE 0

ScenarioCounts ==
  /\ CountOf(call.ret.word_count, <<"e", "t", "h", "i", "c", "s">>) = 3
  /\ CountOf(call.ret.word_count, <<"c", "u", "l", "t", "u", "r", "e">>) = 1
  /\ CountOf(call.ret.word_count, <<"t", "e", "c", "h", "n", "o", "l", "o", "g", "y">>) = 1

\* a number brought into [0, 100]
Clamped(v) == IF v > 100 THEN 100 ELSE IF v < 0 THEN 0 ELSE v

\* C1 as stated: in the end-to-end scenario the counts are ethics 3, culture 1,
\* technology 1, sentence_length is a mean over 2 valid sentences, and
\* readability is forced to 50.
C1_ScenarioAsStated ==
  InScenario =>
    /\ ScenarioCounts
    /\ Len(call.valid_sentences) = 2
    /\ call.ret.sentence_length.den = 2
    /\ call.ret.readability = 50

\* C1 (amended): in the end-to-end scenario the counts are ethics 3,
\* culture 1, technology 1; the text has 3 valid sentences, sentence_length is
\* their mean 11/3, and readability is not forced: it is the library's score
\* brought into [0, 100], and 50 only when the library fails.
C1_Scenario ==
  InScenario =>
    /\ ScenarioCounts
    /\ Len(call.valid_sentences) = 3
    /\ call.ret.sentence_length.den = 3
    /\ RatEq(call.ret.sentence_length, Rat(11, 3))
    /\ call.ret.readability =
         IF call.fre.ok THEN Clamped(call.fre.value) ELSE 50

C1_Witness ==
  InScenario /\ call.fre.ok /\ call.fre.value = 64 /\ call.ret.readability = 64

\* the number of non-empty trimmed pieces of tl between runs of . ! ? :
\* the positions holding the first character of a piece that is neither a
\* blank nor a terminator
ValidSentenceCount(tl) ==
  LET Content(i) == tl[i] \notin Whitespace /\ tl[i] \notin SentenceEnd
      PieceStart(i) ==
        SetMax({0} \cup {k \in 1..(i - 1) : tl[k] \in SentenceEnd}) + 1
  IN  Cardinality({i \in 1..Len(tl) :
        Content(i) /\ \A k \in PieceStart(i)..(i - 1) : tl[k] \in Whitespace})

\* C2: readability is in [0, 100], and it is exactly 50 whenever the text has
\* fewer than 3 valid sentences, whatever the readability library did.
C2_ReadabilityRange ==
  Returned =>
    /\ call.ret.readability >= 0
    /\ call.ret.readability <= 100
    /\ ValidSentenceCount(call.text_lower) < 3 => call.ret.readability = 50

C2_Witness ==
  /\ Returned
  /\ ValidSentenceCount(call.text_lower) = 2
  /\ call.fre.ok
  /\ call.fre.value > 100
  /\ call.ret.readability = 50

IsZero(r) == r.num = 0

\* C3 as stated: empty text gives a record whose numeric fields are all 0,
\* readability included, and whose word_count is empty.
C3_AllZeroAsStated ==
  (Returned /\ call.text = <<>>) =>
    /\ DOMAIN call.ret.word_count = {}
    /\ IsZero(call.ret.word_length)
    /\ IsZero(call.ret.sentence_length)
    /\ IsZero(call.ret.type_token_ratio)
    /\ call.ret.readability = 0
    /\ IsZero(call.ret.sentiment)

\* C3 (amended): a call on empty text returns (it does not raise), with any
\* stop-word set, the empty one included; the record has an empty word_count,
\* word_length, sentence_length, type_token_ratio and sentiment 0, and
\* readability 50, the too-few-sentences fallback.
C3_EmptyText ==
  /\ (call.pc = "called" /\ call.text = <<>>) => ENABLED DefaultParserReturn
  /\ (Returned /\ call.text = <<>>) =>
       /\ DOMAIN call.ret.word_count = {}
       /\ IsZero(call.ret.word_length)
       /\ IsZero(call.ret.sentence_length)
       /\ IsZero(call.ret.type_token_ratio)
       /\ call.ret.readability = 50
       /\ IsZero(call.ret.sentiment)

C3_Witness ==
  /\ Returned
  /\ call.text = <<>>
  /\ call.stop_words = {}
  /\ call.fre.ok
  /\ call.fre.value = 64
  /\ call.sia.ok

\* str.upper(), on the letters of the model
upper(s) ==
  [i \in 1..Len(s) |->
     IF s[i] \in LowerSet
       THEN UpperLetters[CHOOSE k \in 1..26 : LowerLetters[k] = s[i]]
       ELSE s[i]]

\* some part of s has the shape M/D/YY(YY), H:MM AM|PM, in either case
HasTimestampAnyCase(s) ==
  \E i \in 1..Len(s) : TimestampEnd(upper(s), i) > i

\* C7: the first step of clean_text removes every date-time stamp, AM/PM in
\* either case: the text after that step holds no stamp, and the cleaned text
\* holds no clock time (digits, a colon, digits) left over from one.
C7_TimestampsRemovedAnyCase ==
  Returned =>
    /\ ~HasTimestampAnyCase(RemoveTimestamps(call.text))
    /\ \A i \in 1..Len(call.cleaned) :
         ~(/\ call.cleaned[i] = ":"
           /\ At(call.cleaned, i - 1) \in Digit
           /\ At(call.cleaned, i + 1) \in Digit)

\* the sum of f over the set S
RECURSIVE SumOver(_, _)
SumOver(f, S) ==
  IF S = {} THEN 0
  ELSE LET x == CHOOSE y \in S : TRUE IN f[x] + SumOver(f, S \ {x})

\* letters, then one or more digits, then letters
CourseCodeShape(w) ==
  \E a \in 0..Len(w), b \in 0..Len(w) :
    /\ a < b
    /\ \A i \in 1..Len(w) :
         IF i > a /\ i <= b THEN w[i] \in Digit ELSE w[i] \in LowerSet

\* C9: word_count is the occurrence count of each filtered token: no key is
\* all digits or has the course-code shape or is a stop word, every count is
\* at least 1, and the counts sum to the number of filtered tokens.
C9_WordCount ==
  Returned =>
    LET wc == call.ret.word_count
        ft == call.filtered_tokens
    IN  /\ DOMAIN wc = {ft[i] : i \in DOMAIN ft}
        /\ \A w \in DOMAIN wc :
             /\ wc[w] = Cardinality({i \in DOMAIN ft : ft[i] = w})
             /\ wc[w] >= 1
             /\ ~(\A i \in DOMAIN w : w[i] \in Digit)
             /\ ~CourseCodeShape(w)
             /\ w \notin call.stop_words
        /\ SumOver(wc, DOMAIN wc) = Len(ft)

C9_Witness ==
  /\ Returned
  /\ \E i \in DOMAIN call.text_lower : call.text_lower[i] \in Digit
  /\ Len(call.filtered_tokens) < Len(call.tokens)
  /\ \E w \in DOMAIN call.ret.word_count : call.ret.word_count[w] = 2

\* the mean of the compound scores of a call that scored n > 0 sentences
MeanScore == Rat(SumSeq(call.sia.scores), 10 * Len(call.sia.scores))

\* C10: sentiment is in [-1, 1] and in [-0.91, 0.91]; a mean above 0.9 becomes
\* 0.9 + (mean - 0.9) * 0.1, a mean below -0.9 becomes -0.9 + (mean + 0.9) * 0.1,
\* any other mean is returned as it is; it is 0 with no valid sentence and 0
\* when scoring fails.
C10_Sentiment ==
  Returned =>
    LET v == call.ret.sentiment
        n == Len(call.valid_sentences)
        sum == SumSeq(call.sia.scores)
    IN  /\ ~RatLess(Rat(1, 1), v) /\ ~RatLess(v, Rat(-1, 1))
        /\ ~RatLess(Rat(91, 100), v) /\ ~RatLess(v, Rat(-91, 100))
        /\ ~call.sia.ok => IsZero(v)
        /\ n = 0 => IsZero(v)
        /\ (call.sia.ok /\ n > 0) =>
             /\ Len(call.sia.scores) = n
             /\ RatLess(Rat(9, 10), MeanScore) =>
                  RatEq(v, Rat(81 * n + sum, 100 * n))
             /\ RatLess(MeanScore, Rat(-9, 10)) =>
                  RatEq(v, Rat(sum - 81 * n, 100 * n))
             /\ (~RatLess(Rat(9, 10), MeanScore) /\ ~RatLess(MeanScore, Rat(-9, 10))) =>
                  RatEq(v, MeanScore)

C10_Witness ==
  /\ Returned
  /\ call.sia.ok
  /\ Len(call.valid_sentences) = 2
  /\ RatLess(Rat(9, 10), MeanScore)
  /\ RatLess(MeanScore, Rat(1, 1))
  /\ RatEq(call.ret.sentiment, Rat(905, 1000))

(***************************************************************************)
(* Properties of the stop-word methods, checked under StopSpec.            *)
(***************************************************************************)
\* C4: update_stopwords with an action that is neither "add" nor "remove"
\* raises ValueError, whatever the word list, the empty list included.
C4_InvalidActionRaises ==
  (outcome.op = "update_stopwords" /\ outcome.arg \notin {"add", "remove"}) =>
    outcome.raised = "ValueError"

\* C5: every entry of the stop-word set is lowercase, whitespace-trimmed and
\* non-empty.
C5_StopwordEntries ==
  \A w \in stop_words :
    /\ \A i \in DOMAIN w : w[i] \notin UpperSet
    /\ w # <<>>
    /\ w[1] \notin Whitespace
    /\ w[Len(w)] \notin Whitespace

\* C6: the file save_stopwords writes, read by load_stop_words, gives the
\* stop-word set that was saved.
C6_RoundTrip ==
  outcome.op = "save_stopwords" =>
    parse_stop_words(outfile.content) = stop_words

(***************************************************************************)
(* Properties of the corpus, checked under Spec.                           *)
(***************************************************************************)
Metrics == DOMAIN data

Loaded == DOMAIN returned

\* the corpus holds, for each loaded label, exactly the dict returned by the
\* most recent load of that label: the label has a value under a metric
\* exactly when that dict has the metric, and it is that dict's value
CorpusHoldsLastRecord ==
  \A label \in Loaded : \A key \in Metrics :
    /\ label \in DOMAIN data[key] <=> key \in DOMAIN returned[label]
    /\ label \in DOMAIN data[key] => data[key][label] = returned[label][key]

\* a step removes or changes corpus entries of at most one label
OtherLabelsKept ==
  \E label \in {"f1", "f2"} :
    \A key \in DOMAIN data : \A other \in DOMAIN data[key] \ {label} :
      /\ key \in DOMAIN data'
      /\ other \in DOMAIN data'[key]
      /\ data'[key][other] = data[key][other]

\* C8: after any sequence of load_text calls the corpus holds for each loaded
\* label exactly the record of the most recent load of that label, nothing of
\* an earlier load being left under any metric, and a load never removes or
\* changes the entries of another label.
C8_Corpus == [][CorpusHoldsLastRecord' /\ OtherLabelsKept]_vars

\* the labels the framework holds anything for
KnownLabels == DOMAIN raw_texts \cup UNION {DOMAIN data[key] : key \in Metrics}

\* a label has a raw text exactly when it has a value under every metric of
\* the corpus
RawTextHasCompleteRecord ==
  \A label \in KnownLabels :
    label \in DOMAIN raw_texts <=> \A key \in Metrics : label \in DOMAIN data[key]

\* a load_text call that raised changed neither raw_texts nor data
FailedLoadStoresNothing ==
  (outcome'.op = "load_text" /\ outcome'.raised # "none") =>
    UNCHANGED <<raw_texts, data>>

\* C11: after any sequence of load_text calls, failing ones (missing file,
\* raising parser) and ones with custom parsers included, a label is a key of
\* raw_texts if and only if it has an entry under every metric name present
\* in data, and a failed load leaves raw_texts and data unchanged.
C11_DocumentRecordConsistency ==
  [][RawTextHasCompleteRecord' /\ FailedLoadStoresNothing]_vars

====
